---- MODULE Spec2Model ----
(***************************************************************************)
(* Model of the pokedex repository's TTL cache (src/pokecache.ts, listed   *)
(* in README.md) together with the Node timer that drives its reap loop.   *)
(*                                                                         *)
(* Time is a millisecond counter `now` (Date.now()).  A registered         *)
(* setInterval timer fires when `now` reaches its due time; the clock does *)
(* not move past a due timer before its callback has run, while foreground *)
(* calls (add, get, stopReapLoop) may run before or after the callback at  *)
(* the same instant.                                                       *)
(***************************************************************************)
EXTENDS Integers, FiniteSets, Sequences, TLC

\* ---------------------------------------------------------------- bounds
MaxInterval == 2
MaxTime == 5

Keys == {"a", "b"}
Values == {"x", "y"}
Intervals == 1..MaxInterval

\* JavaScript's undefined, returned by get on a miss and held by
\* #reapIntervalId when no timer is registered.
undefined == "undefined"

\* the handles setInterval hands out, in order
TimerIds == <<"t1", "t2", "t3", "t4", "t5", "t6", "t7", "t8">>

\* ------------------------------------------------------------ the API client
\* new Cache(300000): entries of the PokeAPI cache live 5 minutes
CacheTTL == 300000

\* the clock of the API model moves in steps of half a ttl, at most MaxApiSteps
TimeStep == CacheTTL \div 2
MaxApiSteps == 3

\* at most MaxRequests network requests are issued in a run
MaxRequests == 2

baseURL == "https://pokeapi.co/api/v2"

\* JSON null (a decoded body, or an absent page pointer)
null == "<null>"

\* the values an `if (x)` takes for false
Falsy == {undefined, null, ""}

Truthy(v) == v \notin Falsy

isHitNever(cached) == FALSE

\* the fetches' `if (cached)`
isHit(cached) == Truthy(cached)

Names == {"pikachu"}

DefaultLocationsURL == baseURL \o "/location-area?offset=0&limit=20"

NextPageURL == baseURL \o "/location-area?offset=20&limit=20"

LocationsURLDefaultOnly(pageURL) == DefaultLocationsURL

\* fetchLocations: const url = pageURL || `${baseURL}/location-area?offset=0&limit=20`
LocationsURL(pageURL) == IF Truthy(pageURL) THEN pageURL ELSE DefaultLocationsURL

LocationURLPokemonPath(locationName) == baseURL \o "/pokemon/" \o locationName

\* fetchLocation: `${baseURL}/location-area/${locationName}`
LocationURL(locationName) == baseURL \o "/location-area/" \o locationName

\* fetchPokemon: `${baseURL}/pokemon/${pokemonName}`
PokemonURL(pokemonName) == baseURL \o "/pokemon/" \o pokemonName

\* page URLs a caller passes to fetchLocations: none, empty, or a URL
PageArgs == {undefined, "", NextPageURL}

\* values state.prevLocationsURL can hold when mapb runs
PrevArgs == {null, NextPageURL}

URLs == {DefaultLocationsURL, NextPageURL}
            \cup {LocationURL(n) : n \in Names} \cup {PokemonURL(n) : n \in Names}

\* decoded list pages: the first page, the last page, and a page whose
\* pointers are empty strings
ListPages == {"page", "lastPage", "blankPage"}

\* ShallowLocations.next of a list page
nextOf(page) ==
    CASE page = "page" -> NextPageURL
      [] page = "blankPage" -> ""
      [] OTHER -> null

\* ShallowLocations.previous of a list page
previousOf(page) ==
    CASE page = "lastPage" -> NextPageURL
      [] page = "blankPage" -> ""
      [] OTHER -> null

\* decoded response bodies: a list page, a location, a pokemon, or JSON null
Bodies == {"page", "location", "pokemon", null}

\* response.status values the remote answers with
Statuses == {200, 404}

\* response.ok
ok(status) == status >= 200 /\ status <= 299

\* new Error(`HTTP error! status: ${response.status}`)
HttpError(status) == "HTTP error! status: " \o ToString(status)

\* fetch() rejects (transport failure); response.json() rejects (malformed body)
NetworkFailure == "TypeError: fetch failed"
DecodeError == "SyntaxError"

Errors == {NetworkFailure, DecodeError} \cup {HttpError(st) : st \in Statuses}

\* activations of the REPL's line handler that can run at the same time;
\* one command at a time is the scheduling the design assumes
Handlers == {1, 2}
OneAtATime == {1}

Commands == {"map", "mapb", "explore", "catch"}

\* status is the response.status received, -1 before a response
IdleCall == [pc |-> "idle", cmd |-> "-", op |-> "-", arg |-> "-", url |-> "-",
             reqs |-> 0, status |-> -1, result |-> "-", report |-> "none",
             prompted |-> TRUE]

NoOp == [op |-> "new", key |-> "-", val |-> "-", wasStopped |-> FALSE]
NoAdd == [t |-> -1, val |-> "-", prevT |-> -1, prevVal |-> "-"]

\* no response has been stored under a URL yet
NotPopulated == [op |-> "-", status |-> -1, body |-> "-"]

\* initState: nextLocationsURL: null, prevLocationsURL: null
NoPage == [next |-> null, prev |-> null]

\* no second Cache has been constructed
NoCache == [cache |-> {}, interval |-> 0, reapIntervalId |-> undefined, lastReap |-> -1]

\* no line has been read yet
NoLine == [line |-> <<>>, words |-> <<>>, handled |-> FALSE, lookedUp |-> FALSE,
           printed |-> "none", dispatched |-> <<>>, prompted |-> TRUE]

VARIABLES
    cache,           \* #cache: the Map, as its set of entries [key, createdAt, val]
    interval,        \* #interval
    reapIntervalId,  \* #reapIntervalId: a timer id or undefined
    timers,          \* the runtime's registered interval timers: id -> due time
    timerSeq,        \* number of timers setInterval has handed out
    now,             \* Date.now()
    ret,             \* what the last call returned
    lastOp,          \* the last step taken
    added,           \* history: per key, the last add (and the add before it)
    lastReap,        \* history: time of the last reap, -1 if none
    stopped,         \* history: stopReapLoop has been called
    calls,           \* per line-handler activation: the command and its fetch
    done,            \* the activation that ended last, with its outcome
    requests,        \* number of network requests issued so far
    alive,           \* the process is running
    pokedex,         \* state.pokedex: the names of the caught pokemon
    populated,       \* history: per URL, the operation, status and body of the last add
    other,           \* a second Cache instance: its #cache, #interval, #reapIntervalId
    repl,            \* the line handler's last activation: the line and what it did
    pagination       \* state.nextLocationsURL and state.prevLocationsURL

cacheVars == <<cache, interval, reapIntervalId, timers, timerSeq, now, ret, lastOp,
               added, lastReap, stopped>>

apiVars == <<calls, done, requests, alive, pokedex, populated>>

auxVars == <<other, repl, pagination>>

vars == <<cache, interval, reapIntervalId, timers, timerSeq, now, ret, lastOp,
          added, lastReap, stopped, calls, done, requests, alive, pokedex, populated,
          other, repl, pagination>>

\* ------------------------------------------------------------ the Map
has(c, k) == \E e \in c : e.key = k

entryOf(c, k) == CHOOSE e \in c : e.key = k

MapSetAppend(c, k, e) == c \cup {e}

MapSetIfAbsent(c, k, e) == IF has(c, k) THEN c ELSE c \cup {e}

\* Map.prototype.set: the entry for k is replaced
MapSet(c, k, e) == {x \in c : x.key # k} \cup {e}

\* ------------------------------------------------------------ the cache
CacheGetAnyKey(c, k) == IF c = {} THEN undefined ELSE (CHOOSE e \in c : e.key # k \/ Cardinality(c) = 1).val

CacheGetThrowing(c, k) == IF ~has(c, k) THEN "TypeError" ELSE entryOf(c, k).val

\* get: the value get(k) returns on map c
CacheGet(c, k) == IF ~has(c, k) THEN undefined ELSE entryOf(c, k).val

isReapedNoTTL(e, t, ttl) == e.createdAt < t

isReapedAtTTL(e, t, ttl) == e.createdAt <= t - ttl

\* #reap's test: entry.createdAt < cutoff, cutoff = now - #interval
isReaped(e, t, ttl) == e.createdAt < t - ttl

reapNothing(c, t, ttl) == c

\* #reap: one pass over all entries
reap(c, t, ttl) == {e \in c : ~isReaped(e, t, ttl)}

addKeepStamp(k, v) ==
    /\ cache' = MapSet(cache, k,
                       [key |-> k,
                        createdAt |-> IF has(cache, k) THEN entryOf(cache, k).createdAt
                                      ELSE now,
                        val |-> v])
    /\ ret' = undefined
    /\ lastOp' = [op |-> "add", key |-> k, val |-> v, wasStopped |-> FALSE]
    /\ added' = [added EXCEPT ![k] = [t |-> now, val |-> v,
                                      prevT |-> added[k].t, prevVal |-> added[k].val]]
    /\ UNCHANGED <<interval, reapIntervalId, timers, timerSeq, now, lastReap, stopped>>

\* add(key, val)
add(k, v) ==
    /\ cache' = MapSet(cache, k, [key |-> k, createdAt |-> now, val |-> v])
    /\ ret' = undefined
    /\ lastOp' = [op |-> "add", key |-> k, val |-> v, wasStopped |-> FALSE]
    /\ added' = [added EXCEPT ![k] = [t |-> now, val |-> v,
                                      prevT |-> added[k].t, prevVal |-> added[k].val]]
    /\ UNCHANGED <<interval, reapIntervalId, timers, timerSeq, now, lastReap, stopped>>

\* the read of the tutorial listing: checks the age and deletes on expiry
getExpiring(k) ==
    /\ IF has(cache, k) /\ now - entryOf(cache, k).createdAt > interval
          THEN /\ cache' = {e \in cache : e.key # k}
               /\ ret' = undefined
          ELSE /\ cache' = cache
               /\ ret' = CacheGet(cache, k)
    /\ lastOp' = [op |-> "get", key |-> k, val |-> "-", wasStopped |-> FALSE]
    /\ UNCHANGED <<interval, reapIntervalId, timers, timerSeq, now,
                   added, lastReap, stopped>>

\* get(key)
get(k) ==
    /\ ret' = CacheGet(cache, k)
    /\ lastOp' = [op |-> "get", key |-> k, val |-> "-", wasStopped |-> FALSE]
    /\ UNCHANGED <<cache, interval, reapIntervalId, timers, timerSeq, now,
                   added, lastReap, stopped>>

stopReapLoopClearAll ==
    /\ timers' = [id \in {} |-> 0]
    /\ reapIntervalId' = undefined
    /\ ret' = undefined
    /\ lastOp' = [op |-> "stop", key |-> "-", val |-> "-",
                  wasStopped |-> reapIntervalId = undefined]
    /\ stopped' = TRUE
    /\ UNCHANGED <<cache, interval, timerSeq, now, added, lastReap>>

stopReapLoopToggle ==
    /\ IF reapIntervalId # undefined
          THEN /\ timers' = [id \in DOMAIN timers \ {reapIntervalId} |-> timers[id]]
               /\ reapIntervalId' = undefined
               /\ timerSeq' = timerSeq
          ELSE /\ timerSeq' = timerSeq + 1
               /\ reapIntervalId' = TimerIds[timerSeq + 1]
               /\ timers' = [id \in DOMAIN timers \cup {TimerIds[timerSeq + 1]} |->
                                IF id = TimerIds[timerSeq + 1] THEN now + interval
                                ELSE timers[id]]
    /\ ret' = undefined
    /\ lastOp' = [op |-> "stop", key |-> "-", val |-> "-",
                  wasStopped |-> reapIntervalId = undefined]
    /\ stopped' = TRUE
    /\ UNCHANGED <<cache, interval, now, added, lastReap>>

stopReapLoopNoClear ==
    /\ reapIntervalId' = undefined
    /\ ret' = undefined
    /\ lastOp' = [op |-> "stop", key |-> "-", val |-> "-",
                  wasStopped |-> reapIntervalId = undefined]
    /\ stopped' = TRUE
    /\ UNCHANGED <<cache, interval, timers, timerSeq, now, added, lastReap>>

\* stopReapLoop(): clearInterval of the registered timer, if any
stopReapLoop ==
    /\ IF reapIntervalId # undefined
          THEN /\ timers' = [id \in DOMAIN timers \ {reapIntervalId} |-> timers[id]]
               /\ reapIntervalId' = undefined
          ELSE UNCHANGED <<timers, reapIntervalId>>
    /\ ret' = undefined
    /\ lastOp' = [op |-> "stop", key |-> "-", val |-> "-",
                  wasStopped |-> reapIntervalId = undefined]
    /\ stopped' = TRUE
    /\ UNCHANGED <<cache, interval, timerSeq, now, added, lastReap>>

\* the period setInterval uses: Node sets a delay below 1 ms to 1 ms
Delay(ms) == IF ms < 1 THEN 1 ELSE ms

TickOneShot(id) ==
    /\ id \in DOMAIN timers
    /\ timers[id] = now
    /\ cache' = reap(cache, now, interval)
    /\ timers' = [t \in DOMAIN timers \ {id} |-> timers[t]]
    /\ lastReap' = now
    /\ lastOp' = [op |-> "tick", key |-> "-", val |-> "-", wasStopped |-> FALSE]
    /\ UNCHANGED <<interval, reapIntervalId, timerSeq, now, ret, added, stopped>>

\* the setInterval callback of #startReapLoop: runs #reap and is rearmed
Tick(id) ==
    /\ id \in DOMAIN timers
    /\ timers[id] = now
    /\ cache' = reap(cache, now, interval)
    /\ timers' = [timers EXCEPT ![id] = now + Delay(interval)]
    /\ lastReap' = now
    /\ lastOp' = [op |-> "tick", key |-> "-", val |-> "-", wasStopped |-> FALSE]
    /\ UNCHANGED <<interval, reapIntervalId, timerSeq, now, ret, added, stopped>>

\* one millisecond passes; a due timer runs before the clock moves on
Advance ==
    /\ now < MaxTime
    /\ \A id \in DOMAIN timers : timers[id] > now
    /\ now' = now + 1
    /\ lastOp' = [op |-> "advance", key |-> "-", val |-> "-", wasStopped |-> FALSE]
    /\ UNCHANGED <<cache, interval, reapIntervalId, timers, timerSeq, ret,
                   added, lastReap, stopped>>

\* new Cache(ttl) at time 0: empty map, #startReapLoop has registered its timer
Init ==
    /\ interval \in Intervals
    /\ cache = {}
    /\ reapIntervalId = TimerIds[1]
    /\ timers = [id \in {TimerIds[1]} |-> Delay(interval)]
    /\ timerSeq = 1
    /\ now = 0
    /\ ret = undefined
    /\ lastOp = NoOp
    /\ added = [k \in Keys |-> NoAdd]
    /\ lastReap = -1
    /\ stopped = FALSE
    /\ calls = [h \in Handlers |-> IdleCall]
    /\ done = IdleCall
    /\ requests = 0
    /\ alive = TRUE
    /\ pokedex = {}
    /\ populated = [u \in URLs |-> NotPopulated]
    /\ other = NoCache
    /\ repl = NoLine
    /\ pagination = NoPage

Next ==
    /\ \/ \E k \in Keys, v \in Values : add(k, v)
       \/ \E k \in Keys : get(k)
       \/ stopReapLoop
       \/ \E id \in DOMAIN timers : Tick(id)
       \/ Advance
    /\ UNCHANGED apiVars
    /\ UNCHANGED auxVars

Spec == Init /\ [][Next]_vars

\* ------------------------------------------------------------ construction
\* arguments of new Cache(interval), the non-positive ones included
CtorArgs == {-1, 0, 1}

\* new Cache(interval) at time 0 for any argument: the constructor stores
\* the interval and starts the reap loop without a check
CtorInit ==
    /\ interval \in CtorArgs
    /\ cache = {}
    /\ reapIntervalId = TimerIds[1]
    /\ timers = [id \in {TimerIds[1]} |-> Delay(interval)]
    /\ timerSeq = 1
    /\ now = 0
    /\ ret = undefined
    /\ lastOp = NoOp
    /\ added = [k \in Keys |-> NoAdd]
    /\ lastReap = -1
    /\ stopped = FALSE
    /\ calls = [h \in Handlers |-> IdleCall]
    /\ done = IdleCall
    /\ requests = 0
    /\ alive = TRUE
    /\ pokedex = {}
    /\ populated = [u \in URLs |-> NotPopulated]
    /\ other = NoCache
    /\ repl = NoLine
    /\ pagination = NoPage

CtorSpec == CtorInit /\ [][Next]_vars

\* ------------------------------------------------------------ two instances
\* the key both caches are given, and the value each is given
SharedKeys == {"a"}
OwnValues == {"x"}
OtherValues == {"y"}

\* the handle setInterval gave the second instance's #startReapLoop
OtherTimer == TimerIds[2]

\* add(key, val) on the second instance
OtherAdd(k, v) ==
    /\ other' = [other EXCEPT !.cache = MapSet(@, k, [key |-> k, createdAt |-> now, val |-> v])]
    /\ lastOp' = [op |-> "add2", key |-> k, val |-> v, wasStopped |-> FALSE]
    /\ UNCHANGED <<cache, interval, reapIntervalId, timers, timerSeq, now, ret,
                   added, lastReap, stopped>>

\* stopReapLoop() on the second instance
OtherStop ==
    /\ IF other.reapIntervalId # undefined
          THEN /\ timers' = [id \in DOMAIN timers \ {other.reapIntervalId} |-> timers[id]]
               /\ other' = [other EXCEPT !.reapIntervalId = undefined]
          ELSE UNCHANGED <<timers, other>>
    /\ lastOp' = [op |-> "stop2", key |-> "-", val |-> "-",
                  wasStopped |-> other.reapIntervalId = undefined]
    /\ UNCHANGED <<cache, interval, reapIntervalId, timerSeq, now, ret,
                   added, lastReap, stopped>>

\* the setInterval callback the second instance registered: its arrow
\* function calls #reap on that instance
OtherTick ==
    /\ OtherTimer \in DOMAIN timers
    /\ timers[OtherTimer] = now
    /\ other' = [other EXCEPT !.cache = reap(@, now, other.interval), !.lastReap = now]
    /\ timers' = [timers EXCEPT ![OtherTimer] = now + Delay(other.interval)]
    /\ lastOp' = [op |-> "tick2", key |-> "-", val |-> "-", wasStopped |-> FALSE]
    /\ UNCHANGED <<cache, interval, reapIntervalId, timerSeq, now, ret,
                   added, lastReap, stopped>>

\* two caches constructed at time 0, each with its own ttl
TwoCacheInit ==
    /\ interval \in Intervals
    /\ cache = {}
    /\ reapIntervalId = TimerIds[1]
    /\ \E ttl \in Intervals :
          /\ other = [cache |-> {}, interval |-> ttl, reapIntervalId |-> OtherTimer,
                      lastReap |-> -1]
          /\ timers = [id \in {TimerIds[1], OtherTimer} |->
                          IF id = OtherTimer THEN Delay(ttl) ELSE Delay(interval)]
    /\ timerSeq = 2
    /\ now = 0
    /\ ret = undefined
    /\ lastOp = NoOp
    /\ added = [k \in Keys |-> NoAdd]
    /\ lastReap = -1
    /\ stopped = FALSE
    /\ calls = [h \in Handlers |-> IdleCall]
    /\ done = IdleCall
    /\ requests = 0
    /\ alive = TRUE
    /\ pokedex = {}
    /\ populated = [u \in URLs |-> NotPopulated]
    /\ repl = NoLine
    /\ pagination = NoPage

TwoCacheNext ==
    /\ \/ (\E k \in SharedKeys, v \in OwnValues : add(k, v)) /\ UNCHANGED other
       \/ (\E k \in SharedKeys : get(k)) /\ UNCHANGED other
       \/ stopReapLoop /\ UNCHANGED other
       \/ (\E id \in DOMAIN timers \ {OtherTimer} : Tick(id)) /\ UNCHANGED other
       \/ Advance /\ UNCHANGED other
       \/ \E k \in SharedKeys, v \in OtherValues : OtherAdd(k, v)
       \/ OtherStop
       \/ OtherTick
    /\ UNCHANGED apiVars
    /\ UNCHANGED <<repl, pagination>>

TwoCacheSpec == TwoCacheInit /\ [][TwoCacheNext]_vars

\* ------------------------------------------------------------ commands
\* the fetch operation a command calls
OpOf(cmd) ==
    CASE cmd = "explore" -> "fetchLocation"
      [] cmd = "catch" -> "fetchPokemon"
      [] OTHER -> "fetchLocations"

\* the arguments a command passes to its fetch
MapArgs == PageArgs

ArgsOf(cmd) ==
    CASE cmd = "explore" -> Names
      [] cmd = "catch" -> Names
      [] cmd = "mapb" -> PrevArgs
      [] OTHER -> MapArgs

\* the request URL (and cache key) of a fetch operation
UrlOf(op, arg) ==
    CASE op = "fetchLocation" -> LocationURL(arg)
      [] op = "fetchPokemon" -> PokemonURL(arg)
      [] OTHER -> LocationsURL(arg)

returnsEarlyNullOnly(cmd, arg) ==
    \/ cmd = "mapb" /\ arg = null
    \/ cmd = "catch" /\ arg \in pokedex

returnsEarlyMapbOnly(cmd, arg) == cmd = "mapb" /\ ~Truthy(arg)

\* commandMapb: if (!state.prevLocationsURL) return, before any fetch;
\* commandCatch: if (state.pokedex[pokemonName]) return
returnsEarly(cmd, arg) ==
    \/ cmd = "mapb" /\ ~Truthy(arg)
    \/ cmd = "catch" /\ arg \in pokedex

\* the command's own code throws on the fetched data: explore iterates
\* location.pokemon_encounters, map and mapb iterate locations.results
postThrows(cmd, data) ==
    CASE cmd = "explore" -> data # "location"
      [] cmd = "catch" -> FALSE
      [] OTHER -> data \notin ListPages

\* the command's promise rejects: commandCatch catches everything itself,
\* the other commands let the fetch error through
commandThrows(cmd, r) ==
    IF cmd = "catch" \/ r = "-" THEN FALSE ELSE r \in Errors \/ postThrows(cmd, r)

\* commandCatch's catch block prints the failure: the fetch threw, or reading
\* pokemon.base_experience of a null record threw
commandReports(cmd, r) == cmd = "catch" /\ (r \in Errors \/ r = null)

replTailNoCatch(threw) ==
    [report |-> "none", prompted |-> ~threw, alive |-> ~threw]

\* the line handler after the callback: try/catch, then state.rl.prompt()
replTail(threw) ==
    [report |-> IF threw THEN "repl" ELSE "none", prompted |-> TRUE, alive |-> TRUE]

\* the handler's activation ends: fetch outcome r, then command, then REPL
finished(c, r) ==
    LET tail == replTail(commandThrows(c.cmd, r))
    IN  [c EXCEPT !.pc = "idle",
                  !.result = r,
                  !.report = IF commandReports(c.cmd, r) THEN "command" ELSE tail.report,
                  !.prompted = tail.prompted]

CatchOutcomesAlways(cmd, r) ==
    IF cmd = "catch" THEN BOOLEAN ELSE {FALSE}

\* commandCatch after its fetch: randomValue > catchThreshold can go either
\* way for a pokemon record; a record without base_experience gives NaN and
\* the comparison is false; a failed fetch or a null record throws before it
CatchOutcomes(cmd, r) ==
    IF cmd = "catch" /\ r = "pokemon" THEN BOOLEAN ELSE {FALSE}

\* the activation of handler h ends with fetch outcome r
finish(h, c, r) ==
    /\ calls' = [calls EXCEPT ![h] = IdleCall]
    /\ done' = finished(c, r)
    /\ alive' = replTail(commandThrows(c.cmd, r)).alive
    /\ \E caught \in CatchOutcomes(c.cmd, r) :
          pokedex' = IF caught THEN pokedex \cup {c.arg} ELSE pokedex

\* ------------------------------------------------------------ the fetches
\* a line is read and handled by the first free activation: the command runs
\* up to its first await.  The fetch looks the URL up in the cache; a truthy
\* value is returned at once, otherwise a network request is issued.
Line(h, cmd, arg) ==
    LET op == OpOf(cmd)
        url == UrlOf(op, arg)
        c == [IdleCall EXCEPT !.cmd = cmd, !.op = op, !.arg = arg, !.prompted = FALSE]
    IN  /\ alive
        /\ calls[h].pc = "idle"
        /\ \A g \in DOMAIN calls : g < h => calls[g].pc # "idle"
        /\ IF returnsEarly(cmd, arg)
              THEN /\ finish(h, c, "-")
                   /\ lastOp' = [op |-> "line", key |-> "-", val |-> "-", wasStopped |-> FALSE]
                   /\ UNCHANGED <<cache, interval, reapIntervalId, timers, timerSeq, now,
                                  ret, added, lastReap, stopped, requests, populated>>
              ELSE /\ get(url)
                   /\ UNCHANGED populated
                   /\ IF isHit(CacheGet(cache, url))
                         THEN /\ finish(h, [c EXCEPT !.url = url], CacheGet(cache, url))
                              /\ UNCHANGED requests
                         ELSE /\ requests < MaxRequests
                              /\ calls' = [calls EXCEPT ![h] =
                                    [c EXCEPT !.url = url, !.pc = "fetching", !.reqs = 1]]
                              /\ requests' = requests + 1
                              /\ UNCHANGED <<done, alive, pokedex>>

FetchResolveNoOkCheck(h, status) ==
    /\ calls[h].pc = "fetching"
    /\ calls' = [calls EXCEPT ![h].pc = "decoding", ![h].status = status]
    /\ UNCHANGED <<done, alive, pokedex>>
    /\ lastOp' = [op |-> "response", key |-> calls[h].url, val |-> "-", wasStopped |-> FALSE]
    /\ UNCHANGED <<cache, interval, reapIntervalId, timers, timerSeq, now,
                   ret, added, lastReap, stopped, requests, populated>>

FetchResolveRetry(h, status) ==
    /\ calls[h].pc = "fetching"
    /\ IF ~ok(status)
          THEN calls' = [calls EXCEPT ![h].reqs = IF @ < 2 THEN @ + 1 ELSE @,
                                      ![h].status = status]
          ELSE calls' = [calls EXCEPT ![h].pc = "decoding", ![h].status = status]
    /\ UNCHANGED <<done, alive, pokedex>>
    /\ lastOp' = [op |-> "response", key |-> calls[h].url, val |-> "-", wasStopped |-> FALSE]
    /\ UNCHANGED <<cache, interval, reapIntervalId, timers, timerSeq, now,
                   ret, added, lastReap, stopped, requests, populated>>

FetchRejectCachesNull(h) ==
    /\ calls[h].pc = "fetching"
    /\ add(calls[h].url, null)
    /\ finish(h, calls[h], null)
    /\ UNCHANGED <<requests, populated>>

\* await fetch(url) rejects (transport failure): the fetch operation throws
FetchReject(h) ==
    /\ calls[h].pc = "fetching"
    /\ finish(h, calls[h], NetworkFailure)
    /\ lastOp' = [op |-> "response", key |-> calls[h].url, val |-> "-", wasStopped |-> FALSE]
    /\ UNCHANGED <<cache, interval, reapIntervalId, timers, timerSeq, now,
                   ret, added, lastReap, stopped, requests, populated>>

\* await fetch(url) resolves with a response:
\* `if (!response.ok) throw new Error(...)` is applied
FetchResolve(h, status) ==
    /\ calls[h].pc = "fetching"
    /\ IF ~ok(status)
          THEN finish(h, [calls[h] EXCEPT !.status = status], HttpError(status))
          ELSE /\ calls' = [calls EXCEPT ![h].pc = "decoding", ![h].status = status]
               /\ UNCHANGED <<done, alive, pokedex>>
    /\ lastOp' = [op |-> "response", key |-> calls[h].url, val |-> "-", wasStopped |-> FALSE]
    /\ UNCHANGED <<cache, interval, reapIntervalId, timers, timerSeq, now,
                   ret, added, lastReap, stopped, requests, populated>>

\* the fetch operation of handler h has added the decoded body under its url
written(h, body) ==
    IF body = DecodeError THEN populated
    ELSE [populated EXCEPT ![calls[h].url] =
             [op |-> calls[h].op, status |-> calls[h].status, body |-> body]]

JsonResolveCacheAnyway(h, body) ==
    /\ calls[h].pc = "decoding"
    /\ IF body = DecodeError
          THEN /\ add(calls[h].url, null)
               /\ finish(h, calls[h], DecodeError)
          ELSE /\ add(calls[h].url, body)
               /\ finish(h, calls[h], body)
    /\ populated' = written(h, body)
    /\ UNCHANGED requests

JsonResolveBaseKey(h, body) ==
    /\ calls[h].pc = "decoding"
    /\ IF body = DecodeError
          THEN /\ finish(h, calls[h], DecodeError)
               /\ lastOp' = [op |-> "json", key |-> calls[h].url, val |-> "-",
                             wasStopped |-> FALSE]
               /\ UNCHANGED <<cache, interval, reapIntervalId, timers, timerSeq, now,
                              ret, added, lastReap, stopped>>
          ELSE /\ add(DefaultLocationsURL, body)
               /\ finish(h, calls[h], body)
    /\ populated' = written(h, body)
    /\ UNCHANGED requests

JsonResolveFirstWins(h, body) ==
    /\ calls[h].pc = "decoding"
    /\ IF body = DecodeError \/ has(cache, calls[h].url)
          THEN /\ finish(h, calls[h], body)
               /\ lastOp' = [op |-> "json", key |-> calls[h].url, val |-> "-",
                             wasStopped |-> FALSE]
               /\ UNCHANGED <<cache, interval, reapIntervalId, timers, timerSeq, now,
                              ret, added, lastReap, stopped>>
          ELSE /\ add(calls[h].url, body)
               /\ finish(h, calls[h], body)
    /\ populated' = written(h, body)
    /\ UNCHANGED requests

\* await response.json() settles: the body is malformed and the call throws,
\* or the decoded data is added to the cache under url and returned
JsonResolve(h, body) ==
    /\ calls[h].pc = "decoding"
    /\ IF body = DecodeError
          THEN /\ finish(h, calls[h], DecodeError)
               /\ lastOp' = [op |-> "json", key |-> calls[h].url, val |-> "-",
                             wasStopped |-> FALSE]
               /\ UNCHANGED <<cache, interval, reapIntervalId, timers, timerSeq, now,
                              ret, added, lastReap, stopped>>
          ELSE /\ add(calls[h].url, body)
               /\ finish(h, calls[h], body)
    /\ populated' = written(h, body)
    /\ UNCHANGED requests

\* half a ttl passes; a due timer runs before the clock moves on
ApiAdvance ==
    /\ now < MaxApiSteps * TimeStep
    /\ \A id \in DOMAIN timers : timers[id] > now
    /\ now' = now + TimeStep
    /\ lastOp' = [op |-> "advance", key |-> "-", val |-> "-", wasStopped |-> FALSE]
    /\ UNCHANGED <<cache, interval, reapIntervalId, timers, timerSeq, ret,
                   added, lastReap, stopped, calls, done, requests, alive,
                   pokedex, populated>>

\* initState: new PokeAPI() constructs its Cache with the 5 minute ttl
ApiInit ==
    /\ interval = CacheTTL
    /\ cache = {}
    /\ reapIntervalId = TimerIds[1]
    /\ timers = [id \in {TimerIds[1]} |-> Delay(interval)]
    /\ timerSeq = 1
    /\ now = 0
    /\ ret = undefined
    /\ lastOp = NoOp
    /\ added = [k \in URLs |-> NoAdd]
    /\ lastReap = -1
    /\ stopped = FALSE
    /\ calls = [h \in OneAtATime |-> IdleCall]
    /\ done = IdleCall
    /\ requests = 0
    /\ alive = TRUE
    /\ pokedex = {}
    /\ populated = [u \in URLs |-> NotPopulated]
    /\ other = NoCache
    /\ repl = NoLine
    /\ pagination = NoPage

ApiNext ==
    /\ \/ \E h \in DOMAIN calls, cmd \in Commands : \E arg \in ArgsOf(cmd) : Line(h, cmd, arg)
       \/ \E h \in DOMAIN calls : FetchReject(h)
       \/ \E h \in DOMAIN calls, status \in Statuses : FetchResolve(h, status)
       \/ \E h \in DOMAIN calls, body \in Bodies \cup {DecodeError} : JsonResolve(h, body)
       \/ \E id \in DOMAIN timers : Tick(id) /\ UNCHANGED apiVars
       \/ ApiAdvance
    /\ UNCHANGED auxVars

ApiSpec == ApiInit /\ [][ApiNext]_vars

\* ------------------------------------------------------------ the REPL
commandExitCloseOnly ==
    /\ alive' = TRUE
    /\ lastOp' = [op |-> "exit", key |-> "-", val |-> "-", wasStopped |-> stopped]
    /\ UNCHANGED <<cache, interval, reapIntervalId, timers, timerSeq, now, ret,
                   added, lastReap, stopped, calls, done, requests, pokedex, populated>>

\* commandExit: state.rl.close(), then process.exit(0).  The Cache of
\* state.pokeapi is not stopped first: PokeAPI keeps it private and has no
\* method that calls stopReapLoop.  Commands still awaiting stay as they are.
commandExit ==
    /\ alive' = FALSE
    /\ lastOp' = [op |-> "exit", key |-> "-", val |-> "-", wasStopped |-> stopped]
    /\ UNCHANGED <<cache, interval, reapIntervalId, timers, timerSeq, now, ret,
                   added, lastReap, stopped, calls, done, requests, pokedex, populated>>

\* initState with a line handler that is entered again while a command awaits
ReplInit ==
    /\ interval = CacheTTL
    /\ cache = {}
    /\ reapIntervalId = TimerIds[1]
    /\ timers = [id \in {TimerIds[1]} |-> Delay(interval)]
    /\ timerSeq = 1
    /\ now = 0
    /\ ret = undefined
    /\ lastOp = NoOp
    /\ added = [k \in URLs |-> NoAdd]
    /\ lastReap = -1
    /\ stopped = FALSE
    /\ calls = [h \in Handlers |-> IdleCall]
    /\ done = IdleCall
    /\ requests = 0
    /\ alive = TRUE
    /\ pokedex = {}
    /\ populated = [u \in URLs |-> NotPopulated]
    /\ other = NoCache
    /\ repl = NoLine
    /\ pagination = NoPage

\* rl.on("line", async ...): every line starts an activation at once, also
\* while earlier ones await; nothing runs once the process has exited.  The
\* lines arrive within the first half ttl, before any timer is due.
ReplNext ==
    /\ alive
    /\ \/ \E h \in DOMAIN calls, cmd \in Commands : \E arg \in ArgsOf(cmd) : Line(h, cmd, arg)
       \/ \E h \in DOMAIN calls : FetchReject(h)
       \/ \E h \in DOMAIN calls, status \in Statuses : FetchResolve(h, status)
       \/ \E h \in DOMAIN calls, body \in Bodies \cup {DecodeError} : JsonResolve(h, body)
       \/ commandExit
    /\ UNCHANGED auxVars

ReplSpec == ReplInit /\ [][ReplNext]_vars

\* ------------------------------------------------------------ pagination
\* the page URL commandMap passes to fetchLocations
MapPageArg(p) == p.next

\* the page URL commandMapb passes: state.prevLocationsURL
MapbPageArg(p) == p.prev

pointersAfterAlways(c, p) ==
    IF c.cmd \in {"map", "mapb"} /\ c.url # "-"
       THEN IF c.result \in ListPages
               THEN [next |-> nextOf(c.result), prev |-> previousOf(c.result)]
               ELSE [next |-> null, prev |-> null]
       ELSE p

\* state.nextLocationsURL = locations.next; state.prevLocationsURL =
\* locations.previous: reached when the fetch returned and the loop over
\* locations.results did not throw, skipped otherwise; c is the activation
\* that ended, p the pointers before
pointersAfter(c, p) ==
    IF c.cmd \in {"map", "mapb"} /\ c.result \in ListPages
       THEN [next |-> nextOf(c.result), prev |-> previousOf(c.result)]
       ELSE p

\* an activation of the line handler ends in this step
Ended ==
    /\ lastOp'.op \in {"line", "get", "response", "json", "add"}
    /\ \A h \in DOMAIN calls : calls'[h].pc = "idle"

\* the decoded bodies the remote answers a list request with
PageBodies == ListPages \cup {null}

\* map and mapb with the pointers kept in the state, one command at a time
PageNext ==
    /\ \/ \E h \in DOMAIN calls : Line(h, "map", MapPageArg(pagination))
       \/ \E h \in DOMAIN calls : Line(h, "mapb", MapbPageArg(pagination))
       \/ \E h \in DOMAIN calls : FetchReject(h)
       \/ \E h \in DOMAIN calls, status \in Statuses : FetchResolve(h, status)
       \/ \E h \in DOMAIN calls, body \in PageBodies \cup {DecodeError} : JsonResolve(h, body)
       \/ \E id \in DOMAIN timers : Tick(id) /\ UNCHANGED apiVars
       \/ ApiAdvance
    /\ pagination' = IF Ended THEN pointersAfter(done', pagination) ELSE pagination
    /\ UNCHANGED <<other, repl>>

PageSpec == ApiInit /\ [][PageNext]_vars

\* ------------------------------------------------------------ any caller
\* fetchLocations takes whatever string its caller passes as pageURL, the
\* URL of a by-name resource included
CallerPageArgs == PageArgs \cup {PokemonURL(n) : n \in Names}

CallerArgsOf(cmd) == IF cmd = "map" THEN CallerPageArgs ELSE ArgsOf(cmd)

\* the three operations called with any input; the calls are made within
\* the first half ttl, before any timer is due
KindNext ==
    /\ \/ \E h \in DOMAIN calls, cmd \in Commands :
             \E arg \in CallerArgsOf(cmd) : Line(h, cmd, arg)
       \/ \E h \in DOMAIN calls : FetchReject(h)
       \/ \E h \in DOMAIN calls, status \in Statuses : FetchResolve(h, status)
       \/ \E h \in DOMAIN calls, body \in Bodies \cup {DecodeError} : JsonResolve(h, body)
    /\ UNCHANGED auxVars

KindSpec == ApiInit /\ [][KindNext]_vars

\* ------------------------------------------------------------ input lines
\* a line is a sequence of characters, at most MaxLineLen long
MaxLineLen == 3

Chars == {" ", "m", "a", "p", "M"}

Lines == UNION {[1..n -> Chars] : n \in 0..MaxLineLen}

\* the keys of state.commands that the characters can spell
CommandNames == {<<"m", "a", "p">>}

IsSpace(ch) == ch = " "

\* String.prototype.trim
RECURSIVE Trim(_)
Trim(str) ==
    IF str = <<>> THEN str
    ELSE IF IsSpace(str[1]) THEN Trim(Tail(str))
    ELSE IF IsSpace(str[Len(str)]) THEN Trim(SubSeq(str, 1, Len(str) - 1))
    ELSE str

ToLowerCase(str) == [i \in DOMAIN str |-> IF str[i] = "M" THEN "m" ELSE str[i]]

\* index of the first character of str at or after i that is (not) a space,
\* Len(str) + 1 if there is none
RECURSIVE Find(_, _, _)
Find(str, i, space) ==
    IF i > Len(str) THEN i
    ELSE IF IsSpace(str[i]) = space THEN i
    ELSE Find(str, i + 1, space)

\* String.prototype.split(/\s+/): the pieces between the runs of whitespace;
\* a string without whitespace, the empty string too, is one piece
RECURSIVE Split(_)
Split(str) ==
    LET i == Find(str, 1, TRUE)
    IN  IF i > Len(str) THEN <<str>>
        ELSE <<SubSeq(str, 1, i - 1)>>
                \o Split(SubSeq(str, Find(str, i, FALSE), Len(str)))

\* cleanInput: input.trim().toLowerCase().split(/\s+/)
cleanInput(input) == Split(ToLowerCase(Trim(input)))

\* the line handler up to the dispatch: returns after the prompt when there
\* are no words, otherwise looks words[0] up in state.commands, calls the
\* command or prints "Unknown command", and shows the prompt
OnLine(line) ==
    LET words == cleanInput(line)
    IN  /\ repl' = IF Len(words) = 0
                      THEN [line |-> line, words |-> words, handled |-> TRUE,
                            lookedUp |-> FALSE, printed |-> "none",
                            dispatched |-> <<>>, prompted |-> TRUE]
                      ELSE [line |-> line, words |-> words, handled |-> TRUE,
                            lookedUp |-> TRUE,
                            printed |-> IF words[1] \in CommandNames THEN "none"
                                        ELSE "Unknown command",
                            dispatched |-> IF words[1] \in CommandNames THEN words[1]
                                           ELSE <<>>,
                            prompted |-> TRUE]
        /\ UNCHANGED <<cache, interval, reapIntervalId, timers, timerSeq, now, ret, lastOp,
                       added, lastReap, stopped, calls, done, requests, alive, pokedex,
                       populated, other, pagination>>

InputNext == \E line \in Lines : OnLine(line)

InputSpec == ApiInit /\ [][InputNext]_vars

\* ------------------------------------------------------------ properties
Fresh(k) == added[k].t >= 0 /\ now - added[k].t < interval

Expired(k) == added[k].t >= 0 /\ now - added[k].t > interval

GotKey(k) == lastOp.op = "get" /\ lastOp.key = k

\* C1: add(k, v) followed immediately by get(k), with no step in between,
\* returns v, from every reachable state.
C1_AddThenGet ==
    [][\A k \in Keys :
          (lastOp.op = "add" /\ lastOp.key = k /\ lastOp'.op = "get" /\ lastOp'.key = k)
             => ret' = lastOp.val]_vars

C1_Witness ==
    \E k \in Keys :
        /\ GotKey(k)
        /\ added[k].t = now
        /\ added[k].prevT >= 0
        /\ ret = added[k].val

\* C2 (as claimed): a get of a key whose last add is older than the ttl
\* returns undefined, whether or not a reap has run or the loop was stopped.
C2_ExpiredNeverReturned ==
    \A k \in Keys : (GotKey(k) /\ Expired(k)) => ret = undefined

\* C3: while the last add of k is younger than the ttl, the entry is stored
\* and get(k) returns the added value, whatever reaps ran since the add.
C3_FreshNeverLost ==
    \A k \in Keys :
        Fresh(k) => /\ CacheGet(cache, k) = added[k].val
                    /\ GotKey(k) => ret = added[k].val

C3_Witness ==
    \E k \in Keys :
        /\ GotKey(k)
        /\ Fresh(k)
        /\ added[k].t < now
        /\ lastReap > added[k].t
        /\ ret = added[k].val

\* C4: while the reap loop has not been stopped, a key whose last add is
\* more than two ttl old is no longer in the map, and get returns undefined.
C4_SweptAfterTwoTTL ==
    ~stopped =>
        \A k \in Keys :
            (added[k].t >= 0 /\ now > added[k].t + 2 * interval)
                => /\ ~has(cache, k)
                   /\ GotKey(k) => ret = undefined

C4_Witness ==
    \E k \in Keys :
        /\ ~stopped
        /\ GotKey(k)
        /\ added[k].t >= 0
        /\ now > added[k].t + 2 * interval
        /\ ~has(cache, k)
        /\ ret = undefined

\* C5: after add(k, v1) at t0 and add(k, v2) at t0 + ttl/2, a get(k) after
\* t0 + ttl (and within the ttl of the second add) returns v2, also when a
\* reap ran between the second add and the get.
Overwritten(k) ==
    /\ added[k].prevT >= 0
    /\ added[k].t = added[k].prevT + (interval \div 2)
    /\ added[k].t > added[k].prevT
    /\ now > added[k].prevT + interval
    /\ now - added[k].t <= interval

C5_OverwriteResetsFreshness ==
    \A k \in Keys :
        Overwritten(k) => /\ CacheGet(cache, k) = added[k].val
                          /\ GotKey(k) => ret = added[k].val

C5_Witness ==
    \E k \in Keys :
        /\ GotKey(k)
        /\ Overwritten(k)
        /\ added[k].prevVal # added[k].val
        /\ lastReap > added[k].t
        /\ ret = added[k].val

\* C6: the map holds at most one entry per key, and the entry of a key is
\* the one written by the newest add of that key, never an older one.
C6_OneEntryPerKey ==
    /\ \A e1 \in cache : \A e2 \in cache : e1.key = e2.key => e1 = e2
    /\ \A e \in cache : e.val = added[e.key].val /\ e.createdAt = added[e.key].t
    /\ \A k \in Keys : (GotKey(k) /\ has(cache, k)) => ret = added[k].val

C6_Witness ==
    \E k \in Keys :
        /\ GotKey(k)
        /\ added[k].prevT >= 0
        /\ added[k].prevVal # added[k].val
        /\ Cardinality({e \in cache : e.key = k}) = 1
        /\ ret = added[k].val

\* C7: get of a key with no entry (never added, or removed) returns
\* undefined as a normal result and changes nothing of the cache.
C7_MissIsAbsent ==
    [][\A k \in Keys :
          (lastOp'.op = "get" /\ lastOp'.key = k /\ ~has(cache, k))
             => /\ ret' = undefined
                /\ UNCHANGED <<cache, interval, reapIntervalId, timers, timerSeq, now>>]_vars

C7_Witness ==
    \E k \in Keys :
        /\ GotKey(k)
        /\ added[k].t >= 0
        /\ ~has(cache, k)
        /\ ret = undefined

\* C8: stopReapLoop on a cache whose loop is already stopped returns
\* normally and changes nothing; after any stopReapLoop no timer is registered.
C8_StopIdempotent ==
    [][lastOp'.op = "stop"
          => /\ ret' = undefined
             /\ reapIntervalId' = undefined
             /\ DOMAIN timers' = {}
             /\ cache' = cache
             /\ reapIntervalId = undefined
                   => UNCHANGED <<cache, interval, reapIntervalId, timers, timerSeq, now>>]_vars

C8_Witness ==
    /\ lastOp.op = "stop"
    /\ lastOp.wasStopped
    /\ reapIntervalId = undefined
    /\ DOMAIN timers = {}
    /\ cache # {}

\* C9: once stopReapLoop has been called, no reap tick runs and no key
\* leaves the map, whatever add, get and passing of time follow.
C9_NoTickAfterStop ==
    [][stopped => /\ lastOp'.op # "tick"
                  /\ \A e \in cache : has(cache', e.key)]_vars

C9_Witness ==
    /\ stopped
    /\ lastOp.op = "get"
    /\ \E e \in cache : now - e.createdAt > 2 * interval

C22_SweepRemovesExactlyExpired ==
    [][lastOp'.op = "tick"
          => /\ cache' \subseteq cache
             /\ \A e \in cache : e.createdAt < now - interval => ~has(cache', e.key)
             /\ \A e \in cache : e.createdAt >= now - interval => e \in cache'
             /\ \A e \in cache : now - e.createdAt = interval => e \in cache']_vars

\* the tick that just ran kept an entry of age ttl and removed an older one
\* that no earlier tick could have removed
C22_Witness ==
    \E k \in Keys : \E j \in Keys :
        /\ lastOp.op = "tick"
        /\ lastReap = now
        /\ has(cache, k)
        /\ now - entryOf(cache, k).createdAt = interval
        /\ added[j].t >= 0
        /\ now - added[j].t > interval
        /\ now - added[j].t <= 2 * interval
        /\ ~has(cache, j)

\* C23: exactly one timer, the one the constructor registered, is registered
\* from construction until the first stopReapLoop, and it fires every ttl;
\* after the stop none is registered and none is ever registered again.
C23_OneTimerUntilStop ==
    /\ Cardinality(DOMAIN timers) <= 1
    /\ timerSeq = 1
    /\ ~stopped => /\ reapIntervalId = "t1"
                   /\ DOMAIN timers = {"t1"}
                   /\ timers["t1"] = (IF lastReap < 0 THEN 0 ELSE lastReap) + interval
    /\ stopped => /\ reapIntervalId = undefined
                  /\ DOMAIN timers = {}

C23_Witness ==
    /\ stopped
    /\ lastReap >= 2 * interval
    /\ lastOp.op = "add"
    /\ now > lastReap + interval
    /\ DOMAIN timers = {}

\* C25: a step of one cache (add, get, stopReapLoop, reap tick) leaves the
\* other cache's entries, interval and timer handle as they are and leaves
\* the other cache's timer registered with the same due time.
C25_InstancesIndependent ==
    [][/\ lastOp'.op \in {"add", "get", "stop", "tick"}
             => /\ other' = other
                /\ \A id \in DOMAIN timers :
                      id # reapIntervalId
                         => id \in DOMAIN timers' /\ timers'[id] = timers[id]
       /\ lastOp'.op \in {"add2", "stop2", "tick2"}
             => /\ cache' = cache
                /\ interval' = interval
                /\ reapIntervalId' = reapIntervalId
                /\ \A id \in DOMAIN timers :
                      id # other.reapIntervalId
                         => id \in DOMAIN timers' /\ timers'[id] = timers[id]
       /\ (other'.reapIntervalId # undefined) => other'.reapIntervalId \in DOMAIN timers'
       /\ (reapIntervalId' # undefined) => reapIntervalId' \in DOMAIN timers']_vars

\* the first cache was stopped and still holds an entry older than its ttl,
\* while the second cache's timer has just run its own reap
C25_Witness ==
    /\ stopped
    /\ lastOp.op = "tick2"
    /\ other.lastReap = now
    /\ other.reapIntervalId = "t2"
    /\ DOMAIN timers = {"t2"}
    /\ \E e \in cache : now - e.createdAt > interval /\ now - e.createdAt > other.interval
    /\ \E e \in other.cache : e.key \in {x.key : x \in cache}

\* ------------------------------------------------------------ properties of the API client
Running(h) == calls[h].pc # "idle"

\* the step is a fetch's cache lookup of url u (the start of a fetch)
Lookup(u) == lastOp'.op = "get" /\ lastOp'.key = u

HttpFailure(c) == c.status \in Statuses /\ ~(c.status >= 200 /\ c.status <= 299)

\* C11 (as claimed): whenever the request URL has an entry in the cache, the
\* fetch returns the cached value and issues no network request.
C11_PresentIsHit ==
    [][\A u \in URLs :
          (Lookup(u) /\ has(cache, u))
             => /\ requests' = requests
                /\ \A h \in DOMAIN calls : calls'[h].pc = "idle"
                /\ done'.url = u
                /\ done'.result = entryOf(cache, u).val]_vars

\* C12: a by-name fetch of a URL with no cache entry issues exactly one
\* request and returns the decoded record; a later fetch of the same name
\* within the ttl issues none and returns the same record.
ByNameURLs == {LocationURL(n) : n \in Names} \cup {PokemonURL(n) : n \in Names}

C12_MissThenHit ==
    [][\A u \in ByNameURLs :
          /\ (Lookup(u) /\ ~has(cache, u))
                => /\ requests' = requests + 1
                   /\ \E h \in DOMAIN calls :
                         calls'[h].pc = "fetching" /\ calls'[h].url = u /\ calls'[h].reqs = 1
          /\ (lastOp'.op = "add" /\ lastOp'.key = u)
                => /\ requests' = requests
                   /\ done'.reqs = 1
                   /\ done'.result = lastOp'.val
          /\ (Lookup(u) /\ added[u].val \in Bodies \ {null}
                        /\ added[u].t >= 0 /\ now - added[u].t < interval)
                => /\ requests' = requests
                   /\ done'.reqs = 0
                   /\ done'.url = u
                   /\ done'.result = added[u].val]_vars

C12_Witness ==
    \E u \in ByNameURLs :
        /\ lastOp.op = "get"
        /\ done.url = u
        /\ done.reqs = 0
        /\ requests = 1
        /\ added[u].t >= 0
        /\ added[u].t < now
        /\ now - added[u].t < interval
        /\ done.result = added[u].val

\* C13: a response with a non-success status makes the fetch fail with an
\* error carrying the status code and leaves the cache as it was; the next
\* fetch of the same URL issues a network request again.
C13_FailureNotCached ==
    [][/\ \A h \in DOMAIN calls :
             (calls[h].pc = "fetching"
                  /\ \/ calls'[h].pc = "idle" /\ HttpFailure(done')
                     \/ HttpFailure(calls'[h]))
                => /\ calls'[h].pc = "idle"
                   /\ done'.result = "HTTP error! status: " \o ToString(done'.status)
                   /\ done'.url = calls[h].url
                   /\ cache' = cache
       /\ (HttpFailure(done') /\ lastOp'.op # "response") => done'.result \notin Bodies
       /\ (HttpFailure(done) /\ lastOp.op = "response" /\ Lookup(done.url))
                => requests' = requests + 1]_vars

C13_Witness ==
    \E h \in DOMAIN calls :
        /\ HttpFailure(done)
        /\ done.result \in Errors
        /\ requests = 2
        /\ calls[h].pc = "fetching"
        /\ calls[h].url = done.url
        /\ ~has(cache, done.url)

\* C14: when the body of a successful response does not decode, the fetch
\* throws to its caller and the cache is left as it was.
C14_DecodeFailureNotCached ==
    [][\A h \in DOMAIN calls :
          (calls[h].pc = "decoding" /\ calls'[h].pc = "idle" /\ done'.result \notin Bodies)
             => /\ done'.result = "SyntaxError"
                /\ done'.url = calls[h].url
                /\ done'.report # "none"
                /\ cache' = cache]_vars

C14_Witness ==
    /\ lastOp.op = "json"
    /\ done.result = DecodeError
    /\ done.status = 200
    /\ ~has(cache, done.url)

\* C15: an invocation issues at most one network request; a failure ends it
\* with the error (no retry, no cached value instead, no cache write).
C15_NoRetryNoFallback ==
    [][/\ \A h \in DOMAIN calls : calls'[h].reqs <= 1
       /\ done'.reqs <= 1
       /\ \A h \in DOMAIN calls :
             Running(h) => /\ requests' = requests
                           /\ calls'[h].reqs = calls[h].reqs \/ calls'[h].pc = "idle"
                           /\ calls'[h].pc = "fetching" => calls'[h] = calls[h]
       /\ HttpFailure(done') => done'.result \in Errors
       /\ (done'.result \in Errors /\ done' # done)
             => /\ cache' = cache
                /\ done'.reqs = 1
                /\ done'.report \in {"repl", "command"}]_vars

C15_Witness ==
    /\ done.result = NetworkFailure
    /\ done.reqs = 1
    /\ requests = 1
    /\ done.report = "repl"
    /\ cache = {}

\* C16: after a miss, a success response and a successful decode, the value
\* is stored under the URL that was looked up and requested and is returned;
\* a get of that URL right afterwards yields it.
C16_StoredUnderRequestURL ==
    [][\A h \in DOMAIN calls :
          /\ (lastOp'.op = "get" /\ calls'[h].pc = "fetching")
                => calls'[h].url = lastOp'.key
          /\ (calls[h].pc = "decoding" /\ calls'[h].pc = "idle" /\ done'.result \in Bodies)
                => /\ done'.url = calls[h].url
                   /\ has(cache', calls[h].url)
                   /\ entryOf(cache', calls[h].url).createdAt = now
                   /\ CacheGet(cache', calls[h].url) = done'.result
                   /\ \A e \in cache' : e.key # calls[h].url => e \in cache
                   /\ \A e \in cache : e.key # calls[h].url => e \in cache']_vars

C16_Witness ==
    /\ lastOp.op = "add"
    /\ done.reqs = 1
    /\ done.url = lastOp.key
    /\ done.result = null
    /\ CacheGet(cache, done.url) = done.result
    /\ Cardinality(cache) = 2

\* C17: fetchLocations requests and caches under the page URL the caller
\* gave, and under the canonical first-page URL only when none was given
\* (undefined, null or the empty string).
GivenPageURLs == (PageArgs \cup PrevArgs) \ {undefined, null, ""}

LocationsKeyOK(c) ==
    (c.op = "fetchLocations" /\ c.url # "-")
        => /\ c.arg \in GivenPageURLs => c.url = c.arg
           /\ c.arg \notin GivenPageURLs
                 => c.url = "https://pokeapi.co/api/v2/location-area?offset=0&limit=20"

C17_PageURLIsKey ==
    /\ LocationsKeyOK(done)
    /\ \A h \in DOMAIN calls : LocationsKeyOK(calls[h])
    /\ lastOp.op = "add" => lastOp.key = done.url
    /\ (lastOp.op = "get" /\ done.op = "fetchLocations"
            /\ \A h \in DOMAIN calls : ~Running(h)) => lastOp.key = done.url

C17_Witness ==
    /\ lastOp.op = "add"
    /\ done.cmd = "map"
    /\ done.arg = NextPageURL
    /\ done.url = NextPageURL
    /\ has(cache, NextPageURL)
    /\ has(cache, DefaultLocationsURL)

\* C18 (as claimed): no cache with a non-positive interval has a registered
\* reap timer.
C18_NonPositiveRejected ==
    interval <= 0 => DOMAIN timers = {}

\* C19: however reap ticks interleave with add and get, the map has one entry
\* per key at most and get(k) returns undefined or the value of the most
\* recent add(k, _).
C19_InterleavingSafe ==
    /\ \A k \in Keys : Cardinality({e \in cache : e.key = k}) <= 1
    /\ \A k \in Keys : GotKey(k) => (ret = undefined \/ ret = added[k].val)
    /\ \A k \in Keys : (GotKey(k) /\ added[k].t < 0) => ret = undefined

C19_Witness ==
    \E k \in Keys : \E j \in Keys :
        /\ j # k
        /\ GotKey(k)
        /\ lastReap > added[k].prevT
        /\ added[k].prevT >= 0
        /\ lastReap < added[k].t
        /\ added[j].t >= 0
        /\ added[j].val # added[k].val
        /\ added[k].prevVal # added[k].val
        /\ ~has(cache, j)
        /\ ret = added[k].val

\* C20: a command that throws does not end the REPL: the error is reported,
\* the prompt is shown again and the process keeps running.
C20_FailingCommandNotFatal ==
    /\ alive
    /\ done.prompted
    /\ (done.cmd \in {"explore", "map", "mapb"} /\ done.result \in Errors)
          => done.report = "repl"
    /\ (done.cmd = "explore" /\ done.result \in Bodies \ {"location"})
          => done.report = "repl"

C20_Witness ==
    \E h \in DOMAIN calls :
        /\ alive
        /\ done.cmd = "explore"
        /\ done.result \in Errors
        /\ done.report = "repl"
        /\ done.prompted
        /\ calls[h].pc = "fetching"
        /\ calls[h].cmd = "mapb"

\* C21 (as claimed): when the process has exited, stopReapLoop has been
\* called on the PokeAPI's cache and no sweep timer is registered.
C21_StoppedBeforeExit ==
    ~alive => (stopped /\ reapIntervalId = undefined /\ DOMAIN timers = {})

\* C24: a fetch started while another fetch of the same URL is in flight
\* (no entry yet) misses and issues its own request, leaving the other as it
\* is; each fetch that decodes its body writes the entry, so the entry is the
\* value of the fetch that completed last.
C24_OverlapNotCoalesced ==
    [][\A h \in DOMAIN calls : \A g \in DOMAIN calls \ {h} :
          /\ (Running(g) /\ calls[h].pc = "idle" /\ Lookup(calls[g].url)
                  /\ ~has(cache, calls[g].url))
                => /\ calls'[h].pc = "fetching"
                   /\ calls'[h].url = calls[g].url
                   /\ calls'[h].reqs = 1
                   /\ calls'[g] = calls[g]
                   /\ requests' = requests + 1
          /\ (calls[h].pc = "decoding" /\ calls'[h].pc = "idle" /\ done'.result \in Bodies)
                => /\ CacheGet(cache', calls[h].url) = done'.result
                   /\ Cardinality({e \in cache' : e.key = calls[h].url}) = 1
                   /\ entryOf(cache', calls[h].url).createdAt = now]_vars

\* both fetches of the URL stored a record: the first entry was truthy and
\* never removed, so the second request was issued before the first add
C24_Witness ==
    \E u \in ByNameURLs :
        /\ lastOp.op = "add"
        /\ lastOp.key = u
        /\ requests = 2
        /\ lastReap = -1
        /\ added[u].prevT >= 0
        /\ Truthy(added[u].prevVal)
        /\ added[u].prevVal # added[u].val
        /\ done.result = added[u].val
        /\ CacheGet(cache, u) = added[u].val
        /\ \A h \in DOMAIN calls : ~Running(h)

\* C26: a catch whose fetchPokemon throws leaves state.pokedex as it was,
\* prints the failure itself and returns normally: the REPL's catch block
\* is not entered, the prompt is shown and the process keeps running.
C26_FailedCatchLeavesPokedex ==
    [][\A h \in DOMAIN calls :
          (calls[h].cmd = "catch" /\ Running(h) /\ calls'[h].pc = "idle"
              /\ done'.result \in Errors)
             => /\ pokedex' = pokedex
                /\ done'.cmd = "catch"
                /\ done'.report = "command"
                /\ done'.prompted
                /\ alive']_vars

C26_Witness ==
    /\ done.cmd = "catch"
    /\ done.result \in Errors
    /\ done.reqs = 1
    /\ done.report = "command"
    /\ done.prompted
    /\ done.arg \notin pokedex
    /\ ~has(cache, done.url)
    /\ alive

\* C27: an exit line is handled while a command awaits its response; it ends
\* the process at once, and no step of the awaiting command follows: its
\* result is never delivered and nothing is added to the cache.
C27_ExitDoesNotWait ==
    [][/\ lastOp'.op = "exit"
             => /\ ~alive'
                /\ calls' = calls
                /\ done' = done
                /\ cache' = cache
       /\ lastOp.op = "exit" => FALSE]_vars

C27_Witness ==
    \E h \in DOMAIN calls :
        /\ ~alive
        /\ lastOp.op = "exit"
        /\ calls[h].pc = "fetching"
        /\ calls[h].cmd = "catch"
        /\ ~calls[h].prompted
        /\ ~has(cache, calls[h].url)
        /\ done = IdleCall

\* C29 (as claimed): a fetch that finds an entry older than the ttl under its
\* URL issues a network request instead of returning the entry.
C29_FetchNeverStale ==
    [][\A u \in URLs :
          (Lookup(u) /\ has(cache, u) /\ now - entryOf(cache, u).createdAt > interval)
             => /\ requests' = requests + 1
                /\ \E h \in DOMAIN calls : calls'[h].pc = "fetching"]_vars

\* C28 (as claimed): after an empty line the handler has shown the prompt
\* only: it looked no command up, dispatched none and printed nothing.
C28_EmptyLineOnlyPrompts ==
    (repl.handled /\ repl.line = <<>>)
        => /\ repl.prompted
           /\ ~repl.lookedUp
           /\ repl.dispatched = <<>>
           /\ repl.printed = "none"

\* C30 (as claimed): the key a fetch operation uses is never a key that a
\* fetch operation of another kind has populated.
Populator(u) == populated[u].op

C30_KindsNeverShareKey ==
    /\ \A h \in DOMAIN calls :
          (calls[h].url # "-" /\ Populator(calls[h].url) # "-")
             => Populator(calls[h].url) = calls[h].op
    /\ (done.url # "-" /\ Populator(done.url) # "-") => Populator(done.url) = done.op

\* C30 (amended): a by-name fetch uses the URL of its own path and name as
\* key, a list fetch the canonical first page or the page URL it was given;
\* so keys are shared between kinds only through fetchLocations being given
\* the URL of a by-name resource, which it uses verbatim.
PokemonKeys == {"https://pokeapi.co/api/v2/pokemon/pikachu"}

LocationKeys == {"https://pokeapi.co/api/v2/location-area/pikachu"}

KeyKind(u) ==
    IF u \in PokemonKeys THEN "fetchPokemon"
    ELSE IF u \in LocationKeys THEN "fetchLocation"
    ELSE "fetchLocations"

KeyOfOwnKind(c) ==
    c.url # "-"
        => \/ c.op = KeyKind(c.url)
           \/ c.op = "fetchLocations" /\ c.arg = c.url /\ c.url \in PokemonKeys \cup LocationKeys

C30_SharedOnlyViaPageURL ==
    /\ KeyOfOwnKind(done)
    /\ \A h \in DOMAIN calls : KeyOfOwnKind(calls[h])
    /\ \A u \in URLs :
          Populator(u) # "-" => Populator(u) \in {KeyKind(u), "fetchLocations"}
    /\ (done.url # "-" /\ Populator(done.url) \notin {"-", done.op})
          => /\ done.url \in PokemonKeys \cup LocationKeys
             /\ "fetchLocations" \in {done.op, Populator(done.url)}

\* both by-name kinds have cached a record for the same name under different
\* keys, and a list fetch given the pokemon's URL was served that record
C30_Witness ==
    /\ Populator(PokemonURL("pikachu")) = "fetchPokemon"
    /\ Populator(LocationURL("pikachu")) = "fetchLocation"
    /\ Cardinality(cache) = 2
    /\ done.op = "fetchLocations"
    /\ done.arg = PokemonURL("pikachu")
    /\ done.reqs = 0
    /\ done.result = "pokemon"

\* C31: every entry of the PokeAPI's cache was written for a response to a
\* request of its URL that had a success status and decoded, and its value
\* is the body of the last such response stored for that URL.
C31_EntriesAreDecodedResponses ==
    \A e \in cache :
        /\ e.key \in URLs
        /\ populated[e.key].op \in {"fetchLocations", "fetchLocation", "fetchPokemon"}
        /\ populated[e.key].status >= 200
        /\ populated[e.key].status <= 299
        /\ populated[e.key].body # "SyntaxError"
        /\ e.val = populated[e.key].body
        /\ e.val = added[e.key].val
        /\ e.createdAt = added[e.key].t

\* two responses were stored for the URL and the entry holds the later one
C31_Witness ==
    \E u \in URLs :
        /\ has(cache, u)
        /\ requests = 2
        /\ added[u].prevT >= 0
        /\ added[u].prevVal # added[u].val
        /\ populated[u].status = 200
        /\ entryOf(cache, u).val = populated[u].body
        /\ done.result = populated[u].body

\* the step is the start of a mapb command
MapbStarts ==
    /\ \A h \in DOMAIN calls : calls[h].pc = "idle"
    /\ lastOp'.op \in {"line", "get"}
    /\ \/ \E h \in DOMAIN calls : calls'[h].pc # "idle" /\ calls'[h].cmd = "mapb"
       \/ (\A h \in DOMAIN calls : calls'[h].pc = "idle") /\ done'.cmd = "mapb"

\* C32: mapb given while state.prevLocationsURL is null or empty returns at
\* once: no cache lookup, no request, and the pointers and the cache stay
\* as they are.
C32_MapbOnFirstPage ==
    [][(MapbStarts /\ pagination.prev \in {null, ""})
          => /\ requests' = requests
             /\ cache' = cache
             /\ pagination' = pagination
             /\ lastOp'.op # "get"
             /\ \A h \in DOMAIN calls : calls'[h].pc = "idle"
             /\ done'.url = "-"
             /\ done'.reqs = 0
             /\ done'.report = "none"
             /\ done'.prompted]_vars

C32_Witness ==
    /\ lastOp.op = "line"
    /\ done.cmd = "mapb"
    /\ done.arg = ""
    /\ pagination = [next |-> "", prev |-> ""]
    /\ requests = 1
    /\ Cardinality(cache) = 1

\* the step ends a mapb command that called fetchLocations
MapbEnds ==
    /\ \A h \in DOMAIN calls : calls'[h].pc = "idle"
    /\ done'.cmd = "mapb"
    /\ done'.url # "-"
    /\ \/ \E h \in DOMAIN calls : calls[h].pc # "idle" /\ calls[h].cmd = "mapb"
       \/ MapbStarts

\* C33: when a mapb command ends after fetchLocations returned a page, both
\* pointers are the page's next and previous; when the fetch threw, both
\* pointers are what they were.
C33_PointersAtomic ==
    [][MapbEnds
          => /\ done'.result = "page"
                   => pagination' = [next |-> "https://pokeapi.co/api/v2/location-area?offset=20&limit=20",
                                     prev |-> null]
             /\ done'.result = "lastPage"
                   => pagination' = [next |-> null,
                                     prev |-> "https://pokeapi.co/api/v2/location-area?offset=20&limit=20"]
             /\ done'.result = "blankPage" => pagination' = [next |-> "", prev |-> ""]
             /\ done'.result \in Errors
                   => /\ pagination' = pagination
                      /\ done'.report = "repl"]_vars

\* a mapb whose fetch failed left the pointers of the page shown before
C33_Witness ==
    /\ done.cmd = "mapb"
    /\ done.result \in Errors
    /\ done.reqs = 1
    /\ requests = 2
    /\ pagination = [next |-> null, prev |-> NextPageURL]
    /\ done.url = NextPageURL
    /\ ~has(cache, NextPageURL)

\* the step is the start of a catch of name n
CatchStarts(n) ==
    /\ \A h \in DOMAIN calls : calls[h].pc = "idle"
    /\ lastOp'.op \in {"line", "get"}
    /\ \/ \E h \in DOMAIN calls :
             calls'[h].pc # "idle" /\ calls'[h].cmd = "catch" /\ calls'[h].arg = n
       \/ /\ \A h \in DOMAIN calls : calls'[h].pc = "idle"
          /\ done'.cmd = "catch"
          /\ done'.arg = n

\* C34: with one command at a time no name ever leaves the pokedex; a name
\* enters it only when a catch of that name ends with the pokemon record
\* that fetchPokemon(name) returned; and a catch of a name already in the
\* pokedex returns before any lookup or request, leaving the entry alone.
C34_PokedexOnlyGrows ==
    [][/\ pokedex \subseteq pokedex'
       /\ \A n \in pokedex' \ pokedex :
             /\ done'.cmd = "catch"
             /\ done'.op = "fetchPokemon"
             /\ done'.arg = n
             /\ done'.url = "https://pokeapi.co/api/v2/pokemon/" \o n
             /\ done'.result = "pokemon"
             /\ done'.report = "none"
       /\ \A n \in pokedex :
             CatchStarts(n)
                => /\ requests' = requests
                   /\ lastOp'.op # "get"
                   /\ pokedex' = pokedex
                   /\ done'.url = "-"
                   /\ \A h \in DOMAIN calls : calls'[h].pc = "idle"]_vars

\* a catch of the caught name has just returned without a fetch
C34_Witness ==
    /\ pokedex = {"pikachu"}
    /\ lastOp.op = "line"
    /\ done.cmd = "catch"
    /\ done.arg = "pikachu"
    /\ done.url = "-"
    /\ requests = 1
    /\ has(cache, PokemonURL("pikachu"))

====
